---- MODULE Spec2Model ----
(***************************************************************************)
(* Model of daily_broadcast.py: the daily broadcast pipeline               *)
(*   startup checks -> calendar image -> upload -> context -> generative   *)
(*   request with retry -> media resolution (Pexels, then Unsplash, each   *)
(*   candidate approved by the vision check) -> message assembly ->        *)
(*   broadcast.                                                            *)
(* The program is sequential; pc is the position of the single thread.     *)
(* Python strings on which the code computes (strip, upper, lower,         *)
(* startswith, substring search) are sequences of one-character strings.   *)
(***************************************************************************)
EXTENDS Integers, Sequences, FiniteSets, TLC

VARIABLES
    env,                          \* the credentials read from the environment (lines 28-34)
    pc,                           \* position of the script
    exit_code,                    \* 0 while running or after a normal end, 1 after exit(1)
    calendar_image_local_path,    \* main: None or the temporary file
    calendar_image_url,           \* main: None or the uploaded calendar URL
    all_messages_to_send,         \* main: the list handed to broadcast
    attempt,                      \* loop variable of the retry loop
    generated_text_content,       \* get_daily_message...: primary text
    lucky_food_keyword_for_image, \* get_daily_message...: image keyword
    daily_quest_data,             \* get_daily_message...: follow-up object
    messages_to_send,             \* get_daily_message...: the list being assembled
    pexels_image_url,             \* get_daily_message...: result of the Pexels call
    image_url,                    \* get_daily_message...: the resolved image URL
    n_results,                    \* fetch_image...: len of the result list of the search
    idx,                          \* fetch_image...: number of results iterated so far
    checked_count,                \* fetch_image...: candidates submitted to the vision check
    cand,                         \* fetch_image...: locals of the last loop iteration
    candidate_cap,                \* fetch_image...: the argument max_candidates_to_check
    vision_calls,                 \* log: vision checks requested by the latest provider call
    gemini_requests,              \* log: number of POSTs to the text API
    failures,                     \* log: number of attempts that ended in the except branch
    last_parsed,                  \* log: what the latest response parsed to (lines 616-632)
    sleeps,                       \* log: the arguments of time.sleep, in order
    search_log,                   \* log: providers whose search API was requested, in order
    approved,                     \* log: the candidate a provider function returned
    broadcast_calls,              \* log: number of line_bot_api.broadcast calls
    broadcast_arg,                \* log: the list passed to the broadcast call
    broadcast_result,             \* log: "none", "ok", or "failed" (the call raised)
    vision_response,              \* harness of the vision check: the upstream outcome
    vision_result,                \* harness of the vision check: "idle", "pending", "true", "false"
    weather_requests,             \* log: number of GETs to the weather API
    weather_response,             \* harness of the weather lookup: the upstream outcome
    weather_result,               \* harness of the weather lookup: the dict returned
    solar_date,                   \* harness of the solar-term lookup: datetime_obj
    solar_result                  \* harness of the solar-term lookup: the term found

vars == <<env, pc, exit_code, calendar_image_local_path, calendar_image_url,
          all_messages_to_send, attempt, generated_text_content,
          lucky_food_keyword_for_image, daily_quest_data, messages_to_send,
          pexels_image_url, image_url, n_results, idx, checked_count, cand,
          candidate_cap, vision_calls, gemini_requests, failures, last_parsed, sleeps, search_log, approved,
          broadcast_calls, broadcast_arg, broadcast_result, vision_response, vision_result,
          weather_requests, weather_response, weather_result, solar_date, solar_result>>

mainVars == <<calendar_image_local_path, calendar_image_url, all_messages_to_send>>
retryVars == <<attempt, generated_text_content, lucky_food_keyword_for_image,
               daily_quest_data, gemini_requests, failures, last_parsed, sleeps>>
mediaVars == <<pexels_image_url, image_url, n_results, idx, checked_count, cand,
               candidate_cap, vision_calls, search_log, approved>>
castVars == <<broadcast_calls, broadcast_arg, broadcast_result>>
visionVars == <<vision_response, vision_result>>
weatherVars == <<weather_requests, weather_response, weather_result>>
solarVars == <<solar_date, solar_result>>

----------------------------------------------------------------------------
(* Bounds of the model *)

\* largest number of results a photo search returns
MaxResults == 3
\* longest answer text given to the vision check in the function-level specification
MaxAnswerLen == 4
\* largest max_candidates_to_check given to a provider function in the function-level
\* specification
MaxCap == 2

(* Program constants *)

max_retries == 3
initial_retry_delay == 10
pexels_max_candidates_to_check == 10
unsplash_max_candidates_to_check == 5
MaxImageBytes == 4 * 1024 * 1024

----------------------------------------------------------------------------
(* Python values *)

\* an optional string: None, or a str whose characters (or opaque words) are s
None == [none |-> TRUE, s |-> <<>>]
Str(x) == [none |-> FALSE, s |-> x]

\* truth value of an optional string: None and '' are falsy
Truthy(v) == ~v.none /\ v.s # <<>>

Whitespace == {" ", "\n", "\t"}

RECURSIVE LStrip(_)
LStrip(s) == IF s = <<>> THEN s
             ELSE IF Head(s) \in Whitespace THEN LStrip(Tail(s)) ELSE s

RECURSIVE RStrip(_)
RStrip(s) == IF s = <<>> THEN s
             ELSE IF s[Len(s)] \in Whitespace THEN RStrip(SubSeq(s, 1, Len(s) - 1)) ELSE s

\* str.strip()
Strip(s) == RStrip(LStrip(s))

UpperChar(c) == CASE c = "y" -> "Y" [] c = "e" -> "E" [] c = "s" -> "S"
                  [] c = "n" -> "N" [] c = "o" -> "O" [] c = "t" -> "T"
                  [] c = "c" -> "C" [] c = "a" -> "A" [] c = "k" -> "K"
                  [] OTHER -> c

LowerChar(c) == CASE c = "Y" -> "y" [] c = "E" -> "e" [] c = "S" -> "s"
                  [] c = "N" -> "n" [] c = "O" -> "o" [] c = "T" -> "t"
                  [] c = "C" -> "c" [] c = "A" -> "a" [] c = "K" -> "k"
                  [] OTHER -> c

\* str.upper() and str.lower()
Upper(s) == [i \in 1..Len(s) |-> UpperChar(s[i])]
Lower(s) == [i \in 1..Len(s) |-> LowerChar(s[i])]

\* t in s, for strings
Contains(s, t) == \E i \in 1..(Len(s) - Len(t) + 1) : SubSeq(s, i, i + Len(t) - 1) = t

\* s.startswith(p)
StartsWith(s, p) == Len(s) >= Len(p) /\ SubSeq(s, 1, Len(p)) = p

----------------------------------------------------------------------------
(* Texts of the messages, as opaque words *)

\* main_text_content generated by the text API in attempt k
Text(k) == <<"generated", k>>
\* line 645
PlaceholderRetry == <<"placeholder_retry_exhausted">>
\* line 655
PlaceholderNone == <<"placeholder_all_failed">>
\* line 665
PlaceholderEmpty == <<"placeholder_empty">>
\* line 712
ClosingText == <<"closing">>

TextMessage(body, quick) == [type |-> "text", body |-> body, quick |-> quick]
ImageMessage(url) == [type |-> "image", body |-> url, quick |-> 0]

----------------------------------------------------------------------------
(* The follow-up object "daily_quest" of a response *)

\* t: "None" (null), "str" (a non-empty string instead of an object) or "dict";
\* greeting, task_prompt: whether the key is present; buttons: the value of "buttons":
\* absent, a list of entries ("map": an object, "str": a string), or a number.
Quest(t, greeting, task_prompt, buttons) ==
    [t |-> t, greeting |-> greeting, task_prompt |-> task_prompt, buttons |-> buttons]
NoButtons == [t |-> "absent", items |-> <<>>]
ButtonList(items) == [t |-> "list", items |-> items]
ButtonNumber == [t |-> "int", items |-> <<>>]

QuestNone == Quest("None", FALSE, FALSE, NoButtons)

\* truth value of daily_quest_data: None and {} are falsy
QuestTruthy(q) ==
    \/ q.t = "str"
    \/ q.t = "dict" /\ (q.greeting \/ q.task_prompt \/ q.buttons.t # "absent")

----------------------------------------------------------------------------
(* Startup: lines 28-63 *)

Credentials == {"LINE_CHANNEL_ACCESS_TOKEN", "GEMINI_API_KEY", "OPENWEATHERMAP_API_KEY",
                "UNSPLASH_ACCESS_KEY", "PEXELS_API_KEY", "IMGUR_CLIENT_ID"}

\* a check that takes the weather key for optional
critical_error_occurred_twoKeys(e) ==
    ~e["LINE_CHANNEL_ACCESS_TOKEN"] \/ ~e["GEMINI_API_KEY"]

\* lines 44-46: the keys whose absence sets critical_error_occurred
critical_error_occurred(e) ==
    ~e["LINE_CHANNEL_ACCESS_TOKEN"] \/ ~e["GEMINI_API_KEY"] \/ ~e["OPENWEATHERMAP_API_KEY"]

NoCand == [url |-> None, download |-> "none", content_type |-> <<>>, size |-> 0,
           verdict |-> "not_checked"]

NoParse == [reached |-> FALSE, main |-> "none", raw_keyword |-> [kind |-> "absent", s |-> <<>>],
            assigned |-> FALSE, keyword |-> None, quest |-> QuestNone]

\* the values of the script's variables before its first statement
Fresh ==
    /\ exit_code = 0
    /\ calendar_image_local_path = None
    /\ calendar_image_url = None
    /\ all_messages_to_send = <<>>
    /\ attempt = 0
    /\ generated_text_content = None
    /\ lucky_food_keyword_for_image = None
    /\ daily_quest_data = QuestNone
    /\ messages_to_send = <<>>
    /\ pexels_image_url = None
    /\ image_url = None
    /\ n_results = 0
    /\ idx = 0
    /\ checked_count = 0
    /\ cand = NoCand
    /\ candidate_cap = 0
    /\ vision_calls = 0
    /\ gemini_requests = 0
    /\ failures = 0
    /\ last_parsed = NoParse
    /\ sleeps = <<>>
    /\ search_log = <<>>
    /\ approved = NoCand
    /\ broadcast_calls = 0
    /\ broadcast_arg = <<>>
    /\ broadcast_result = "none"
    /\ weather_requests = 0

\* the harness variables of the function-level specifications, out of use
VisionIdle == vision_response = [kind |-> "none", text |-> <<>>] /\ vision_result = "idle"
WeatherIdle == weather_response = [kind |-> "none"] /\ weather_result = [source |-> "idle"]
SolarIdle == solar_date = [month |-> 0, day |-> 0, leap |-> FALSE] /\ solar_result = <<>>

Init ==
    /\ env \in [Credentials -> BOOLEAN]
    /\ pc = "startup"
    /\ Fresh
    /\ VisionIdle
    /\ WeatherIdle
    /\ SolarIdle

\* lines 43-63: the module-level checks. The LineBotApi constructor of line 59 only
\* stores the token, so with a token present the except branch of line 61 is not taken
Startup ==
    /\ pc = "startup"
    /\ IF critical_error_occurred(env)
         THEN pc' = "exited" /\ exit_code' = 1
         ELSE pc' = "calendar" /\ exit_code' = 0
    /\ UNCHANGED <<env, mainVars, retryVars, mediaVars, castVars, visionVars, weatherVars,
                   solarVars, messages_to_send>>

----------------------------------------------------------------------------
(* Content Requester: the retry loop, lines 609-651 *)

\* the keyword field of a parsed response: absent, null, a number, or a string
RawKeywords ==
    { [kind |-> "absent", s |-> <<>>],
      [kind |-> "null", s |-> <<>>],
      [kind |-> "number", s |-> <<>>],
      [kind |-> "str", s |-> <<>>],
      [kind |-> "str", s |-> <<" ">>],
      [kind |-> "str", s |-> <<" ", "C", "a", "k", "e", "\n">>] }

\* the "daily_quest" field of a parsed response ("absent": the key is missing)
RawQuests ==
    { Quest("absent", FALSE, FALSE, NoButtons),
      Quest("None", FALSE, FALSE, NoButtons),
      Quest("str", FALSE, FALSE, NoButtons),
      Quest("dict", FALSE, FALSE, NoButtons),
      Quest("dict", TRUE, FALSE, NoButtons),
      Quest("dict", TRUE, TRUE, ButtonList(<<>>)),
      Quest("dict", TRUE, TRUE, ButtonList(<<"map", "map">>)),
      Quest("dict", FALSE, FALSE, ButtonList(<<"map">>)),
      Quest("dict", TRUE, TRUE, ButtonList(<<"map", "str">>)),
      Quest("dict", TRUE, TRUE, ButtonNumber) }

NoPayload == [main |-> "absent", keyword |-> [kind |-> "absent", s |-> <<>>],
              quest |-> Quest("absent", FALSE, FALSE, NoButtons)]

\* the outcomes of one POST to the text API, as the loop body distinguishes them
GeminiResponses ==
    { [kind |-> k, payload |-> NoPayload] :
        k \in {"timeout", "http_error", "bad_json", "no_candidates", "bad_structure",
               "undecodable", "not_object"} }
    \cup
    { [kind |-> k, payload |-> [main |-> m, keyword |-> w, quest |-> q]] :
        k \in {"direct", "embedded"}, m \in {"absent", "null", "empty", "text"},
        w \in RawKeywords, q \in RawQuests }

\* lines 616-628: the response yields a mapping parsed_json
ReachesParsed(r) == r.kind \in {"direct", "embedded"}

\* line 630: parsed_json.get("main_text_content"): "text", "empty" or "none"
ParsedMain(r) ==
    CASE r.payload.main = "text" -> "text"
      [] r.payload.main = "empty" -> "empty"
      [] OTHER -> "none"

\* line 631: .strip() raises AttributeError on a value that is no string
KeywordRaises(r) == r.payload.keyword.kind \in {"null", "number"}

\* a keyword that is lowered but not stripped
ParsedKeyword_unstripped(r) == Str(Lower(r.payload.keyword.s))

\* line 631: parsed_json.get("lucky_food_image_keyword", "").strip().lower()
ParsedKeyword(r) == Str(Lower(Strip(r.payload.keyword.s)))

\* line 632: parsed_json.get("daily_quest")
ParsedQuest(r) == IF r.payload.quest.t = "absent" THEN QuestNone ELSE r.payload.quest

\* lines 616-632: what one response assigns before validation. reached: line 630 ran;
\* raw_keyword: the keyword field of parsed_json; assigned: lines 631 and 632 ran too
Parse(r) ==
    [ reached  |-> ReachesParsed(r),
      main     |-> IF ReachesParsed(r) THEN ParsedMain(r) ELSE "none",
      raw_keyword |-> IF ReachesParsed(r) THEN r.payload.keyword ELSE NoPayload.keyword,
      assigned |-> ReachesParsed(r) /\ ~KeywordRaises(r),
      keyword  |-> IF ReachesParsed(r) /\ ~KeywordRaises(r) THEN ParsedKeyword(r) ELSE None,
      quest    |-> IF ReachesParsed(r) /\ ~KeywordRaises(r) THEN ParsedQuest(r) ELSE QuestNone ]

\* the distinct results of parsing one response
ParsedResponses == { Parse(r) : r \in GeminiResponses }

\* the value of generated_text_content line 630 assigns in attempt k
ParsedText(parsed, k) ==
    CASE parsed.main = "text" -> Str(Text(k))
      [] parsed.main = "empty" -> Str(<<>>)
      [] OTHER -> None

\* a validation that forgets the primary text
Usable_textOptional(text, quest) == QuestTruthy(quest)

\* line 634: the response passes validation
Usable(text, quest) == Truthy(text) /\ QuestTruthy(quest)

\* an off-by-one in the test for the last attempt
IsLastAttempt_late(a) == a = max_retries + 1

\* line 644
IsLastAttempt(a) == a = max_retries

\* a product where the code has a power
RetryDelay_linear(a) == initial_retry_delay * (2 * a)

\* line 649
RetryDelay(a) == initial_retry_delay * (2 ^ a)

\* an except branch that leaves the keyword of an earlier attempt in place
KeywordOnLastFailure_kept(kw) == kw

\* line 646: the keyword after the last attempt failed
KeywordOnLastFailure(kw) == None

\* an except branch that leaves the follow-up object of an earlier attempt in place
QuestOnLastFailure_kept(q) == q

\* line 647: the follow-up object after the last attempt failed
QuestOnLastFailure(q) == QuestNone

\* one iteration of the loop of line 613: request, parse, validate, and on failure
\* the except branch (placeholder on the last attempt, sleep otherwise)
GeminiAttempt ==
    /\ pc = "attempt"
    /\ attempt <= max_retries
    /\ \E parsed \in ParsedResponses :
         LET text1 == IF parsed.reached THEN ParsedText(parsed, attempt)
                      ELSE generated_text_content
             kw1 == IF parsed.assigned THEN parsed.keyword
                    ELSE lucky_food_keyword_for_image
             quest1 == IF parsed.assigned THEN parsed.quest ELSE daily_quest_data
         IN  /\ gemini_requests' = gemini_requests + 1
             /\ last_parsed' = parsed
             /\ IF parsed.assigned /\ Usable(text1, quest1)
                  THEN \* line 638: break
                       /\ generated_text_content' = text1
                       /\ lucky_food_keyword_for_image' = kw1
                       /\ daily_quest_data' = quest1
                       /\ UNCHANGED <<attempt, failures, sleeps>>
                       /\ pc' = "primary"
                  ELSE \* lines 642-651
                       /\ failures' = failures + 1
                       /\ IF IsLastAttempt(attempt)
                            THEN /\ generated_text_content' = Str(PlaceholderRetry)
                                 /\ lucky_food_keyword_for_image' = KeywordOnLastFailure(kw1)
                                 /\ daily_quest_data' = QuestOnLastFailure(quest1)
                                 /\ sleeps' = sleeps
                            ELSE /\ generated_text_content' = text1
                                 /\ lucky_food_keyword_for_image' = kw1
                                 /\ daily_quest_data' = quest1
                                 /\ sleeps' = Append(sleeps, RetryDelay(attempt))
                       /\ IF attempt + 1 <= max_retries
                            THEN attempt' = attempt + 1 /\ pc' = "attempt"
                            ELSE attempt' = attempt /\ pc' = "primary"
    /\ UNCHANGED <<env, exit_code, mainVars, mediaVars, castVars, visionVars, weatherVars,
                   solarVars, messages_to_send>>

----------------------------------------------------------------------------
(* Calendar image and upload: main, lines 724-749 *)

\* lines 724-727: create_daily_calendar_image returns a path, or None on any error
CreateCalendar ==
    /\ pc = "calendar"
    /\ \E rendered \in BOOLEAN :
         calendar_image_local_path' = IF rendered THEN Str(<<"calendar_png">>) ELSE None
    /\ pc' = "calendar_message"
    /\ UNCHANGED <<env, exit_code, calendar_image_url, all_messages_to_send, retryVars,
                   mediaVars, castVars, visionVars, weatherVars, solarVars, messages_to_send>>

UploadOutcomes == {"ok", "success_false", "request_error", "other_error"}

\* lines 66-92: upload_to_imgur
upload_to_imgur(outcome) ==
    IF ~env["IMGUR_CLIENT_ID"] THEN None
    ELSE IF outcome = "ok" THEN Str(<<"imgur">>) ELSE None

\* a calendar message appended without the test of line 741
CalendarMessages_always(url) == <<ImageMessage(url.s)>>

\* lines 741-749: the calendar message, when there is a URL
CalendarMessages(url) == IF Truthy(url) THEN <<ImageMessage(url.s)>> ELSE <<>>

\* lines 730-749: upload, removal of the temporary file, the calendar message
PrepareCalendarMessage ==
    /\ pc = "calendar_message"
    /\ \E outcome \in UploadOutcomes :
         LET url == IF Truthy(calendar_image_local_path)
                    THEN upload_to_imgur(outcome) ELSE None
         IN  /\ calendar_image_url' = url
             /\ all_messages_to_send' = CalendarMessages(url)
    /\ pc' = "context"
    /\ UNCHANGED <<env, exit_code, calendar_image_local_path, retryVars, mediaVars,
                   castVars, visionVars, weatherVars, solarVars, messages_to_send>>

\* lines 572-611: date, weather (one call of get_weather_for_generic_location, line
\* 581), solar term and prompt; none of them can raise and none of their results is
\* read again after the prompt is built
GatherContext ==
    /\ pc = "context"
    /\ weather_requests' = weather_requests + 1
    /\ attempt' = 0
    /\ generated_text_content' = None
    /\ lucky_food_keyword_for_image' = None
    /\ daily_quest_data' = QuestNone
    /\ pc' = "attempt"
    /\ UNCHANGED <<env, exit_code, mainVars, mediaVars, castVars, visionVars, solarVars,
                   weather_response, weather_result, messages_to_send, gemini_requests,
                   failures, last_parsed, sleeps>>

----------------------------------------------------------------------------
(* Vision-relevance check: lines 177-220 *)

AffirmativeToken == <<"Y", "E", "S">>

\* lines 204-206: "YES" in text.strip().upper()
AnswerIsAffirmative(text) == Contains(Upper(Strip(text)), AffirmativeToken)

\* lines 197-220: the verdict for one upstream outcome. timeout, http_error and
\* bad_json raise inside the try; no_candidates and empty_parts take the else branch;
\* no_text raises KeyError at line 204; all of them return False.
is_image_relevant_for_food_by_gemini_sync(resp) ==
    resp.kind = "text" /\ AnswerIsAffirmative(resp.text)

VisionFailureKinds == {"timeout", "http_error", "bad_json", "no_candidates",
                       "empty_parts", "no_text"}

VisionFailures == { [kind |-> k, text |-> <<>>] : k \in VisionFailureKinds }

\* the upstream outcomes the pipeline draws from for each candidate
VisionSamples ==
    VisionFailures \cup
    { [kind |-> "text", text |-> t] :
        t \in { <<"Y", "E", "S">>, <<" ", "y", "e", "s", "\n">>, <<"N", "O">>,
                <<"e", "y", "e", "s">>, <<"N", "O", " ", "Y", "E", "S">>, <<>> } }

\* the answer texts of the function-level specification: every string over the
\* alphabet up to MaxAnswerLen characters
AnswerAlphabet == {"Y", "E", "S", "y", "e", "N", " "}
Answers == UNION { [1..n -> AnswerAlphabet] : n \in 0..MaxAnswerLen }
VisionInputs == VisionFailures \cup { [kind |-> "text", text |-> t] : t \in Answers }

\* a call of the vision check with one upstream outcome
InitVision ==
    /\ env = [c \in Credentials |-> TRUE]
    /\ pc = "vision_call"
    /\ Fresh
    /\ vision_response \in VisionInputs
    /\ vision_result = "pending"
    /\ WeatherIdle
    /\ SolarIdle

\* lines 197-220: the call returns its verdict
VisionCheck ==
    /\ pc = "vision_call"
    /\ vision_result' = IF is_image_relevant_for_food_by_gemini_sync(vision_response)
                        THEN "true" ELSE "false"
    /\ pc' = "vision_return"
    /\ UNCHANGED <<env, exit_code, mainVars, retryVars, mediaVars, castVars,
                   messages_to_send, vision_response, weatherVars, solarVars>>

NextVision == VisionCheck

SpecVision == InitVision /\ [][NextVision]_vars

----------------------------------------------------------------------------
(* Solar-term lookup: get_current_solar_term_with_feeling, lines 377-404 *)

\* lines 377-390: the keys (month, day) of SOLAR_TERMS_DATA; a key stands for its label
SOLAR_TERMS_DATA ==
    { <<2, 4>>, <<2, 19>>, <<3, 5>>, <<3, 20>>, <<4, 4>>, <<4, 20>>, <<5, 5>>, <<5, 21>>,
      <<6, 5>>, <<6, 21>>, <<7, 7>>, <<7, 22>>, <<8, 7>>, <<8, 23>>, <<9, 7>>, <<9, 23>>,
      <<10, 8>>, <<10, 23>>, <<11, 7>>, <<11, 22>>, <<12, 7>>, <<12, 21>>, <<1, 5>>,
      <<1, 20>> }

\* line 404: the generic description
SolarFallback == <<0, 0>>

\* the number of days of month m in a leap or a common year (datetime's calendar)
DaysInMonth(m, leap) ==
    IF m = 2 THEN (IF leap THEN 29 ELSE 28)
    ELSE IF m \in {4, 6, 9, 11} THEN 30 ELSE 31

\* the values datetime_obj can take: every day of a common and of a leap year
SolarDates ==
    { dt \in { [month |-> m, day |-> d, leap |-> l] :
                 m \in 1..12, d \in 1..31, l \in BOOLEAN } :
        dt.day <= DaysInMonth(dt.month, dt.leap) }

\* line 398: datetime_obj.replace(day=1) - timedelta(days=1), the last day of the
\* month before (December of the year before for a January date)
PrevMonthDate(date) ==
    LET m == IF date.month = 1 THEN 12 ELSE date.month - 1
    IN  [month |-> m, day |-> DaysInMonth(m, date.leap), leap |-> date.leap]

\* a window of two weeks
SolarOffsets_short == 0..13

\* line 394: range(15)
SolarOffsets == 0..14

\* lines 395-400: the key looked up for one days_offset
CheckedKey(date, days_offset) ==
    LET check_day == date.day - days_offset
    IN  IF check_day < 1
          THEN <<PrevMonthDate(date).month, PrevMonthDate(date).day + check_day>>
          ELSE <<date.month, check_day>>

\* lines 391-404: the label of the first offset whose key is in the table
get_current_solar_term_with_feeling(date) ==
    LET hits == { o \in SolarOffsets : CheckedKey(date, o) \in SOLAR_TERMS_DATA }
    IN  IF hits = {} THEN SolarFallback
        ELSE CheckedKey(date, CHOOSE o \in hits : \A o2 \in hits : o <= o2)

\* a call of the lookup on one date
InitSolar ==
    /\ env = [c \in Credentials |-> TRUE]
    /\ pc = "solar_call"
    /\ Fresh
    /\ VisionIdle
    /\ WeatherIdle
    /\ solar_date \in SolarDates
    /\ solar_result = <<>>

\* lines 391-404: the call returns
SolarLookup ==
    /\ pc = "solar_call"
    /\ solar_result' = get_current_solar_term_with_feeling(solar_date)
    /\ pc' = "solar_return"
    /\ UNCHANGED <<env, exit_code, mainVars, retryVars, mediaVars, castVars, visionVars,
                   weatherVars, messages_to_send, solar_date>>

NextSolar == SolarLookup

SpecSolar == InitSolar /\ [][NextSolar]_vars

----------------------------------------------------------------------------
(* Weather lookup: get_weather_for_generic_location, lines 406-474 *)

\* lines 409-413: default_weather_info
DefaultWeather ==
    [source |-> "default", description |-> <<"default_description">>,
     temperature |-> <<"default_temperature">>, reaction |-> <<"default_reaction">>]

\* the "cod" field of the body: absent, a number, or a string
Cods == { [t |-> "absent", v |-> 0], [t |-> "int", v |-> 200], [t |-> "int", v |-> 401],
          [t |-> "str", v |-> 200], [t |-> "str", v |-> 404] }

\* a test that takes every body for a success
CodIsSuccess_any(cod) == TRUE

\* line 421: weather_data.get("cod") != 200; the string "200" is not the number 200
CodIsSuccess(cod) == cod.t = "int" /\ cod.v = 200

\* the "weather" and "main" fields: absent, empty, of the expected type ("list",
\* "dict"), or a non-empty value of another type ("bad")
WeatherFields == {"absent", "empty", "list", "bad"}
MainFields == {"absent", "empty", "dict", "bad"}

\* line 425: weather_data.get("weather") and weather_data.get("main")
HasWeatherAndMain(weather, main) == weather \in {"list", "bad"} /\ main \in {"dict", "bad"}

\* main.temp in tenths of a degree: absent, a number, or a string ("bad")
Temperatures ==
    { [t |-> "none", v |-> 0], [t |-> "bad", v |-> 0] } \cup
    { [t |-> "float", v |-> x] : x \in {179, 180, 219, 220, 280, 281, 320, 321} }

\* the words the reaction tests look for in the description (the characters for
\* rain, cloud and clear sky are written "yu", "yun", "qing")
DescriptionMarks == {"yu", "rain", "drizzle", "yun", "cloud", "qing", "sun", "clear"}

\* weather[0].description: absent (line 426 puts a default without any mark), null,
\* or a string with the marks it contains
Descriptions ==
    { [t |-> "absent", marks |-> {}], [t |-> "null", marks |-> {}] } \cup
    { [t |-> "str", marks |-> m] : m \in SUBSET DescriptionMarks }

NoBody == [cod |-> [t |-> "absent", v |-> 0], weather |-> "absent", main |-> "absent",
           temp |-> [t |-> "none", v |-> 0], description |-> [t |-> "absent", marks |-> {}]]

WeatherFailureKinds == {"timeout", "connection_error", "http_error", "bad_json", "not_object"}

\* the outcomes of the GET of line 416; description and temp are read only from a
\* body that passed lines 421 and 425 with a list and a mapping
WeatherInputs ==
    { [kind |-> k, body |-> NoBody] : k \in WeatherFailureKinds }
    \cup
    { [kind |-> "body", body |-> [NoBody EXCEPT !.cod = c, !.weather = w, !.main = m]] :
        c \in Cods, w \in WeatherFields, m \in MainFields }
    \cup
    { [kind |-> "body",
       body |-> [cod |-> [t |-> "int", v |-> 200], weather |-> "list", main |-> "dict",
                 temp |-> tp, description |-> d]] :
        tp \in Temperatures, d \in Descriptions }

\* line 428: f"{temp_float:.1f}" with the unit, or the default text
TemperatureText(temp) ==
    IF temp.t = "none" THEN <<"comfortable">> ELSE <<"celsius", temp.v \div 10, temp.v % 10>>

\* lines 430-465: the list possible_reactions that is chosen from
ReactionClass(d, temp) ==
    IF temp.t = "none" THEN "generic"
    ELSE IF "yu" \in d \/ "rain" \in d \/ "drizzle" \in d THEN "rain"
    ELSE IF "yun" \in d \/ ("cloud" \in d /\ "qing" \notin d) THEN "cloud"
    ELSE IF temp.v > 320 THEN "hot"
    ELSE IF temp.v > 280 /\ ("qing" \in d \/ "sun" \in d \/ "clear" \in d) THEN "sunny"
    ELSE IF temp.v < 180 THEN "cold"
    ELSE IF temp.v < 220 THEN "cool"
    ELSE "generic"

\* the length of possible_reactions
ReactionChoices(class) == IF class = "generic" THEN 3 ELSE 2

\* lines 426-441: an exception raised after line 425 let the body through
BodyRaises(b) ==
    \/ b.weather = "bad"
    \/ b.main = "bad"
    \/ b.temp.t = "bad"
    \/ b.temp.t = "float" /\ b.description.t = "null"

\* lines 414-474: the dicts the call can return for one outcome of the request (the
\* choice among them is random.choice of line 466)
get_weather_for_generic_location(r) ==
    IF r.kind # "body" THEN {DefaultWeather}
    ELSE IF ~CodIsSuccess(r.body.cod) THEN {DefaultWeather}
    ELSE IF ~HasWeatherAndMain(r.body.weather, r.body.main) THEN {DefaultWeather}
    ELSE IF BodyRaises(r.body) THEN {DefaultWeather}
    ELSE LET class == ReactionClass(r.body.description.marks, r.body.temp)
         IN  { [source |-> "live", description |-> r.body.description,
                temperature |-> TemperatureText(r.body.temp),
                reaction |-> <<class, i>>] : i \in 1..ReactionChoices(class) }

\* a call of the weather lookup with one outcome of its request
InitWeather ==
    /\ env = [c \in Credentials |-> TRUE]
    /\ pc = "weather_call"
    /\ Fresh
    /\ VisionIdle
    /\ SolarIdle
    /\ weather_response \in WeatherInputs
    /\ weather_result = [source |-> "pending"]

\* lines 414-474: the single GET and the return
WeatherCall ==
    /\ pc = "weather_call"
    /\ weather_requests' = weather_requests + 1
    /\ weather_result' \in get_weather_for_generic_location(weather_response)
    /\ pc' = "weather_return"
    /\ UNCHANGED <<env, exit_code, mainVars, retryVars, mediaVars, castVars, visionVars,
                   solarVars, messages_to_send, weather_response>>

NextWeather == WeatherCall

SpecWeather == InitWeather /\ [][NextWeather]_vars

----------------------------------------------------------------------------
(* Media Resolver: lines 222-362 *)

Providers == {"Pexels", "Unsplash"}

KeyOf(p) == IF p = "Pexels" THEN "PEXELS_API_KEY" ELSE "UNSPLASH_ACCESS_KEY"

\* the default of max_candidates_to_check, lines 295 and 222
max_candidates_to_check(p) ==
    IF p = "Pexels" THEN pexels_max_candidates_to_check
    ELSE unsplash_max_candidates_to_check

SearchPc(p) == IF p = "Pexels" THEN "pexels_search" ELSE "unsplash_search"
LoopPc(p) == IF p = "Pexels" THEN "pexels_loop" ELSE "unsplash_loop"

ImagePrefix == <<"i", "m", "a", "g", "e", "/">>

ContentTypes ==
    { ImagePrefix \o <<"j", "p", "e", "g">>,
      ImagePrefix \o <<"g", "i", "f">>,
      <<"t", "e", "x", "t", "/", "h", "t", "m", "l">>,
      <<"i", "m", "a", "g", "e">>,
      <<>> }

\* lines 263 and 334
IsImageContentType(content_type) == StartsWith(content_type, ImagePrefix)

\* a size test that lets every payload through
IsTooLarge_never(size) == FALSE

\* lines 267 and 338
IsTooLarge(size) == size > MaxImageBytes

ImageSizes == {MaxImageBytes, MaxImageBytes + 1}

DownloadOutcomes == {"ok", "network_error", "http_error"}

\* an image message appended without the test of line 680
WithImage_always(msgs, url) == Append(msgs, ImageMessage(url.s))

\* lines 680-684: the image message, when an image was resolved
WithImage(msgs, url) == IF Truthy(url) THEN Append(msgs, ImageMessage(url.s)) ELSE msgs

\* a fallback that forgets the test "not image_url"
QueryUnsplashNext_always(p, image) == p = "Pexels" /\ env["UNSPLASH_ACCESS_KEY"]

\* line 675: after the call of provider p left image as the resolved image, the
\* next provider is queried
QueryUnsplashNext(p, image) ==
    p = "Pexels" /\ ~Truthy(image) /\ env["UNSPLASH_ACCESS_KEY"]

\* the return of provider p with value url (None or a URL), and the caller's lines
\* that follow it: 672-684 after Pexels, 676-684 after Unsplash. c is the candidate
\* the URL belongs to.
Return(p, url, c) ==
    LET image1 == IF Truthy(url) THEN url ELSE image_url
        toUnsplash == QueryUnsplashNext(p, image1)
    IN  /\ pexels_image_url' = IF p = "Pexels" THEN url ELSE pexels_image_url
        /\ image_url' = image1
        /\ approved' = IF Truthy(url) THEN c ELSE approved
        /\ n_results' = 0
        /\ idx' = 0
        /\ checked_count' = 0
        /\ cand' = NoCand
        /\ IF toUnsplash
             THEN pc' = "unsplash_search" /\ messages_to_send' = messages_to_send
             ELSE pc' = "followup" /\ messages_to_send' = WithImage(messages_to_send, image1)

SearchFailures == {"timeout", "http_error", "bad_json", "no_results"}

SearchOutcomes ==
    { [kind |-> k, n |-> 0] : k \in SearchFailures } \cup
    { [kind |-> "results", n |-> n] : n \in 1..MaxResults }

\* lines 296-318 (Pexels) and 223-248 (Unsplash): the guards and the search request
\* of a call with max_candidates_to_check = cap
SearchWith(p, cap) ==
    /\ pc = SearchPc(p)
    /\ candidate_cap' = cap
    /\ vision_calls' = 0
    /\ IF \/ ~env[KeyOf(p)]
          \/ ~Truthy(lucky_food_keyword_for_image)
          \/ Strip(lucky_food_keyword_for_image.s) = <<>>
         THEN /\ search_log' = search_log
              /\ Return(p, None, NoCand)
         ELSE /\ search_log' = Append(search_log, p)
              /\ \E o \in SearchOutcomes :
                   IF o.kind = "results"
                     THEN /\ n_results' = o.n
                          /\ idx' = 0
                          /\ checked_count' = 0
                          /\ cand' = NoCand
                          /\ pc' = LoopPc(p)
                          /\ UNCHANGED <<pexels_image_url, image_url, approved,
                                         messages_to_send>>
                     ELSE Return(p, None, NoCand)
    /\ UNCHANGED <<env, exit_code, mainVars, retryVars, castVars, visionVars, weatherVars,
                   solarVars>>

\* lines 672 and 676: the pipeline calls both functions with the default cap
Search(p) == SearchWith(p, max_candidates_to_check(p))

\* the verdicts the vision check gives on the sampled upstream outcomes
VisionVerdicts == { is_image_relevant_for_food_by_gemini_sync(resp) : resp \in VisionSamples }

\* lines 323-347 (Pexels) and 253-276 (Unsplash): one candidate as the loop body
\* leaves it in its locals; a field the body never reads keeps its empty value
Candidate(has_url, download, content_type, size, relevant) ==
    LET base == [has_url |-> has_url, download |-> "none", content_type |-> <<>>,
                 size |-> 0, verdict |-> "not_checked"]
    IN  IF ~has_url THEN base
        ELSE IF download # "ok" THEN [base EXCEPT !.download = download]
        ELSE IF ~IsImageContentType(content_type)
               THEN [base EXCEPT !.download = "ok", !.content_type = content_type]
        ELSE IF IsTooLarge(size)
               THEN [base EXCEPT !.download = "ok", !.content_type = content_type,
                                 !.size = size]
        ELSE [base EXCEPT !.download = "ok", !.content_type = content_type, !.size = size,
                          !.verdict = IF relevant THEN "relevant" ELSE "not_relevant"]

\* the distinct candidates one iteration can meet
Candidates ==
    { Candidate(has_url, download, content_type, size, relevant) :
        has_url \in BOOLEAN, download \in DownloadOutcomes,
        content_type \in ContentTypes, size \in ImageSizes, relevant \in VisionVerdicts }

\* potential_image_url of result i of provider p
Located(c, p, i) ==
    [url |-> IF c.has_url THEN Str(<<p, i>>) ELSE None, download |-> c.download,
     content_type |-> c.content_type, size |-> c.size, verdict |-> c.verdict]

\* a return that does not look at the verdict of the check
IsApproved_anyVerdict(c) == c.verdict # "not_checked"

\* lines 343 and 272: the vision check called the candidate relevant
IsApproved(c) == c.verdict = "relevant"

\* a test that lets one more candidate through
CapReached_late(count, cap) == count > cap

\* lines 320 and 250: checked_count >= max_candidates_to_check
CapReached(count, cap) == count >= cap

\* lines 319-352 (Pexels) and 249-281 (Unsplash): one iteration of the candidate
\* loop, or its end
Iterate(p) ==
    /\ pc = LoopPc(p)
    /\ candidate_cap' = candidate_cap
    /\ IF idx >= n_results \/ CapReached(checked_count, candidate_cap)
         THEN Return(p, None, NoCand) /\ vision_calls' = vision_calls
         ELSE \E shape \in Candidates :
                LET c == Located(shape, p, idx + 1)
                IN  /\ vision_calls' = IF c.verdict = "not_checked"
                                       THEN vision_calls ELSE vision_calls + 1
                    /\ IF IsApproved(c)
                         THEN Return(p, c.url, c)
                         ELSE /\ cand' = c
                              /\ idx' = idx + 1
                              /\ checked_count' = IF c.verdict = "not_checked"
                                                  THEN checked_count
                                                  ELSE checked_count + 1
                              /\ pc' = pc
                              /\ UNCHANGED <<n_results, pexels_image_url, image_url,
                                             approved, messages_to_send>>
    /\ UNCHANGED <<env, exit_code, mainVars, retryVars, castVars, visionVars, weatherVars,
                   solarVars, search_log>>

SearchPexels == Search("Pexels")
IteratePexels == Iterate("Pexels")
SearchUnsplash == Search("Unsplash")
IterateUnsplash == Iterate("Unsplash")

(* The provider functions called with any cap: lines 295 and 222 *)

\* a response that passes validation and carries a keyword
AcceptedResponse ==
    [kind |-> "direct",
     payload |-> [main |-> "text",
                  keyword |-> [kind |-> "str", s |-> <<" ", "C", "a", "k", "e", "\n">>],
                  quest |-> Quest("dict", TRUE, TRUE, ButtonList(<<"map", "map">>))]]

\* the pipeline at line 672, about to call the first provider function: all keys
\* set, the calendar uploaded, the first response accepted
InitFetch ==
    /\ env = [c \in Credentials |-> TRUE]
    /\ pc = "pexels_search"
    /\ exit_code = 0
    /\ calendar_image_local_path = Str(<<"calendar_png">>)
    /\ calendar_image_url = Str(<<"imgur">>)
    /\ all_messages_to_send = <<ImageMessage(<<"imgur">>)>>
    /\ attempt = 0
    /\ generated_text_content = Str(Text(0))
    /\ lucky_food_keyword_for_image = ParsedKeyword(AcceptedResponse)
    /\ daily_quest_data = ParsedQuest(AcceptedResponse)
    /\ messages_to_send = <<TextMessage(Text(0), 0)>>
    /\ pexels_image_url = None
    /\ image_url = None
    /\ n_results = 0
    /\ idx = 0
    /\ checked_count = 0
    /\ cand = NoCand
    /\ candidate_cap = 0
    /\ vision_calls = 0
    /\ gemini_requests = 1
    /\ failures = 0
    /\ last_parsed = Parse(AcceptedResponse)
    /\ sleeps = <<>>
    /\ search_log = <<>>
    /\ approved = NoCand
    /\ broadcast_calls = 0
    /\ broadcast_arg = <<>>
    /\ broadcast_result = "none"
    /\ weather_requests = 1
    /\ VisionIdle
    /\ WeatherIdle
    /\ SolarIdle

\* a call of a provider function with max_candidates_to_check in 1..MaxCap
FetchPexels == \E cap \in 1..MaxCap : SearchWith("Pexels", cap)
FetchUnsplash == \E cap \in 1..MaxCap : SearchWith("Unsplash", cap)

NextFetch ==
    \/ FetchPexels
    \/ IteratePexels
    \/ FetchUnsplash
    \/ IterateUnsplash

SpecFetch == InitFetch /\ [][NextFetch]_vars

----------------------------------------------------------------------------
(* Delivery Assembler: lines 653-715 *)

\* lines 653-671: the second placeholder, the primary text message, and the choice
\* of the first provider
PrimaryMessage ==
    /\ pc = "primary"
    /\ LET unset == generated_text_content.none
           text == IF unset THEN Str(PlaceholderNone) ELSE generated_text_content
           keyword == IF unset THEN None ELSE lucky_food_keyword_for_image
       IN  /\ generated_text_content' = text
           /\ lucky_food_keyword_for_image' = keyword
           /\ daily_quest_data' = IF unset THEN QuestNone ELSE daily_quest_data
           /\ IF Truthy(text)
                THEN /\ messages_to_send' = <<TextMessage(text.s, 0)>>
                     /\ pc' = IF ~Truthy(keyword) THEN "followup"
                              ELSE IF env["PEXELS_API_KEY"] THEN "pexels_search"
                              ELSE IF env["UNSPLASH_ACCESS_KEY"] THEN "unsplash_search"
                              ELSE "followup"
                ELSE \* lines 665-666: return with the single apology message
                     /\ messages_to_send' = <<TextMessage(PlaceholderEmpty, 0)>>
                     /\ pc' = "returned"
    /\ UNCHANGED <<env, exit_code, mainVars, attempt, gemini_requests, failures,
                   last_parsed, sleeps, mediaVars, castVars, visionVars, weatherVars, solarVars>>

\* line 691: buttons_data and len(buttons_data) > 0; len() of a number raises TypeError
ButtonsRaiseOnLen(b) == b.t = "int"
ButtonsPresent(b) == b.t = "list" /\ b.items # <<>>

\* line 694: btn.get raises AttributeError on an entry that is no mapping
ButtonEntryRaises(entry) == entry # "map"

\* lines 686-698: an exception leaves the function
FollowUpRaises(q) ==
    /\ QuestTruthy(q) /\ q.t = "dict"
    /\ \/ ButtonsRaiseOnLen(q.buttons)
       \/ ButtonsPresent(q.buttons)
          /\ \E i \in 1..Len(q.buttons.items) : ButtonEntryRaises(q.buttons.items[i])

GreetingOf(q) == IF q.greeting THEN "greeting" ELSE "default_greeting"
TaskPromptOf(q) == IF q.task_prompt THEN "task_prompt" ELSE "default_task_prompt"

\* lines 686-712: the terminal message
TerminalMessage(q) ==
    IF QuestTruthy(q) /\ q.t = "dict"
      THEN IF ButtonsPresent(q.buttons)
             THEN TextMessage(<<"followup", GreetingOf(q), TaskPromptOf(q)>>,
                              Len(q.buttons.items))
             ELSE TextMessage(<<"followup", GreetingOf(q)>>, 0)
      ELSE TextMessage(ClosingText, 0)

\* lines 686-715: the follow-up message and the return; an exception raised here is
\* not caught in the function nor in main (line 752) and ends the script
AssembleFollowUp ==
    /\ pc = "followup"
    /\ IF FollowUpRaises(daily_quest_data)
         THEN /\ pc' = "crashed"
              /\ exit_code' = 1
              /\ messages_to_send' = messages_to_send
         ELSE /\ pc' = "returned"
              /\ exit_code' = exit_code
              /\ messages_to_send' = Append(messages_to_send, TerminalMessage(daily_quest_data))
    /\ UNCHANGED <<env, mainVars, retryVars, mediaVars, castVars, visionVars, weatherVars,
                   solarVars>>

----------------------------------------------------------------------------
(* Broadcast Transport: main, lines 752-783 *)

\* a handler that lets the exception of the broadcast call leave the script
AfterBroadcast_reraise(ok) == IF ok THEN "done" ELSE "crashed"

\* lines 771-783: after the call, and after the except branch of line 774 alike,
\* the script goes on to its closing log lines
AfterBroadcast(ok) == "done"

\* lines 755-783: extend the list, broadcast once, end
Broadcast ==
    /\ pc = "returned"
    /\ LET all == IF messages_to_send # <<>>
                  THEN all_messages_to_send \o messages_to_send
                  ELSE all_messages_to_send
       IN  /\ all_messages_to_send' = all
           /\ IF all # <<>>
                THEN /\ broadcast_calls' = broadcast_calls + 1
                     /\ broadcast_arg' = all
                     /\ \E ok \in BOOLEAN :
                          /\ broadcast_result' = IF ok THEN "ok" ELSE "failed"
                          /\ pc' = AfterBroadcast(ok)
                ELSE UNCHANGED castVars /\ pc' = "done"
    /\ UNCHANGED <<env, exit_code, calendar_image_local_path, calendar_image_url,
                   retryVars, mediaVars, visionVars, weatherVars, solarVars, messages_to_send>>

Next ==
    \/ Startup
    \/ CreateCalendar
    \/ PrepareCalendarMessage
    \/ GatherContext
    \/ GeminiAttempt
    \/ PrimaryMessage
    \/ SearchPexels
    \/ IteratePexels
    \/ SearchUnsplash
    \/ IterateUnsplash
    \/ AssembleFollowUp
    \/ Broadcast

Spec == Init /\ [][Next]_vars

----------------------------------------------------------------------------
(* Properties *)

\* the retry loop is over
PastRetryLoop == pc \in {"primary", "pexels_search", "pexels_loop", "unsplash_search",
                         "unsplash_loop", "followup", "returned", "crashed", "done"}

\* the media stage of get_daily_message_from_gemini_with_retry is over
PastMedia == pc \in {"followup", "returned", "crashed", "done"}

\* the function has returned its message list
Returned == pc \in {"returned", "done"}

\* every request of the run failed
AllAttemptsFailed == PastRetryLoop /\ failures = gemini_requests

GeneratedTexts == { Text(k) : k \in 0..max_retries }
PlaceholderTexts == {PlaceholderRetry, PlaceholderNone}

IsTerminalMessage(m) ==
    m.type = "text" /\ (m.body = ClosingText \/ m.body[1] = "followup")

\* C1: when every attempt fails, exactly max_retries + 1 requests were issued, the
\* primary text is a non-empty placeholder, keyword and follow-up object are null,
\* and the function does not raise: it puts the placeholder first in its list.
C1_ExhaustedRetries ==
    AllAttemptsFailed =>
        /\ gemini_requests = max_retries + 1
        /\ ~generated_text_content.none
        /\ generated_text_content.s \in PlaceholderTexts
        /\ generated_text_content.s # <<>>
        /\ lucky_food_keyword_for_image = None
        /\ daily_quest_data = QuestNone
        /\ pc # "crashed"
        /\ Returned => messages_to_send[1] = TextMessage(generated_text_content.s, 0)

C1_Witness ==
    /\ pc = "returned"
    /\ failures = max_retries + 1
    /\ last_parsed.reached /\ ~last_parsed.assigned

\* C2: get_daily_message_from_gemini_with_retry never raises: no run ends with an
\* exception leaving the function.
C2_NeverRaises == pc # "crashed"

C4_MissingFollowUpAccepted ==
    (last_parsed.assigned /\ last_parsed.main = "text" /\ last_parsed.quest = QuestNone) =>
        /\ PastRetryLoop
        /\ failures < gemini_requests
        /\ generated_text_content.s \in GeneratedTexts
        /\ Returned =>
             /\ messages_to_send[1] = TextMessage(generated_text_content.s, 0)
             /\ messages_to_send[Len(messages_to_send)] = TextMessage(ClosingText, 0)

\* C5: every run that passes the startup check reaches the broadcast call with a
\* non-empty list: a run that has ended has made the call.
C5_AlwaysBroadcasts ==
    pc \in {"done", "crashed"} => (broadcast_calls = 1 /\ broadcast_arg # <<>>)

\* the candidate has one of the defects the claim names
Rejectable(c) ==
    /\ Truthy(c.url)
    /\ \/ c.download \in {"network_error", "http_error"}
       \/ c.download = "ok" /\ ~StartsWith(c.content_type, ImagePrefix)
       \/ c.size > 4 * 1024 * 1024

\* C6: in both provider functions a candidate that is too large, is not of an image
\* content type or fails to download is not submitted to the vision check and is not
\* returned, and the loop goes on to the next result.
C6_CandidateRejection ==
    /\ Rejectable(cand) =>
         /\ cand.verdict = "not_checked"
         /\ pc \in {"pexels_loop", "unsplash_loop"}
         /\ cand.url = Str(<<IF pc = "pexels_loop" THEN "Pexels" ELSE "Unsplash", idx>>)
         /\ image_url = None
    /\ ~Rejectable(approved)
    /\ Truthy(image_url) => (image_url = approved.url /\ approved.verdict = "relevant")

C6_Witness ==
    /\ pc = "unsplash_loop"
    /\ cand.size = MaxImageBytes + 1
    /\ idx = 2
    /\ idx < n_results

\* C7: when no provider's search ends with a relevant verdict, no provider returns
\* a URL and the list has no image message but has the primary text and the
\* terminal message.
C7_NoImageIsNoError ==
    (PastMedia /\ approved = NoCand) =>
        /\ pexels_image_url = None
        /\ image_url = None
        /\ \A i \in 1..Len(messages_to_send) : messages_to_send[i].type # "image"
        /\ Returned =>
             /\ Len(messages_to_send) = 2
             /\ messages_to_send[1] = TextMessage(generated_text_content.s, 0)
             /\ IsTerminalMessage(messages_to_send[2])

C7_Witness ==
    /\ pc = "returned"
    /\ approved = NoCand
    /\ search_log = <<"Pexels", "Unsplash">>

Member(x, seq) == \E i \in 1..Len(seq) : seq[i] = x

\* C8: Pexels is searched before Unsplash; Unsplash is searched exactly when it is
\* configured and Pexels yielded no relevant image; the URL returned is that of the
\* provider searched last, and once a provider has returned a URL no search or
\* candidate loop runs.
C8_ProviderFallback ==
    /\ search_log \in {<<>>, <<"Pexels">>, <<"Unsplash">>, <<"Pexels", "Unsplash">>}
    /\ PastMedia =>
         /\ Member("Pexels", search_log) <=>
              (Truthy(lucky_food_keyword_for_image) /\ env["PEXELS_API_KEY"])
         /\ Member("Unsplash", search_log) <=>
              /\ Truthy(lucky_food_keyword_for_image)
              /\ env["UNSPLASH_ACCESS_KEY"]
              /\ ~(Member("Pexels", search_log) /\ Truthy(pexels_image_url))
    /\ approved # NoCand =>
         /\ PastMedia
         /\ image_url = approved.url
         /\ approved.url.s[1] = search_log[Len(search_log)]
         /\ (approved.url.s[1] = "Unsplash") = ~Truthy(pexels_image_url)

C8_Witness ==
    /\ pc = "returned"
    /\ search_log = <<"Pexels", "Unsplash">>
    /\ approved.url = Str(<<"Unsplash", 1>>)
    /\ messages_to_send[2] = ImageMessage(<<"Unsplash", 1>>)

\* C9: the vision check returns true only for an answer that is exactly the
\* affirmative token (case and surrounding whitespace aside); every other outcome
\* gives false.
C9_FailsClosed ==
    vision_result = "true" =>
        /\ vision_response.kind = "text"
        /\ Upper(Strip(vision_response.text)) = <<"Y", "E", "S">>

\* C10: the waits are initial_retry_delay * 2^k after the failed attempt k, for
\* k < max_retries (10, 20, 40); no wait follows the last failed attempt nor a
\* success, so there are at most max_retries waits.
C10_Backoff ==
    /\ Len(sleeps) = (IF failures <= max_retries THEN failures ELSE max_retries)
    /\ Len(sleeps) <= max_retries
    /\ \A i \in 1..Len(sleeps) : sleeps[i] = initial_retry_delay * (2 ^ (i - 1))
    /\ \A i \in 1..Len(sleeps) : i <= 3 => sleeps[i] = <<10, 20, 40>>[i]

C10_Witness ==
    /\ sleeps = <<10, 20, 40>>
    /\ PastRetryLoop
    /\ failures = max_retries

\* the media stage is running
InMedia == pc \in {"pexels_search", "pexels_loop", "unsplash_search", "unsplash_loop"}

\* C11: when the primary text is a placeholder the keyword is null, no photo search
\* is requested, no candidate reaches the vision check, and the terminal message of
\* the returned list is the static closing text.
C11_DegradedSkipsMedia ==
    (~generated_text_content.none /\ generated_text_content.s \in PlaceholderTexts) =>
        /\ lucky_food_keyword_for_image = None
        /\ search_log = <<>>
        /\ ~InMedia
        /\ checked_count = 0 /\ cand = NoCand /\ approved = NoCand
        /\ image_url = None
        /\ Returned =>
             /\ Len(messages_to_send) = 2
             /\ messages_to_send[2] = TextMessage(ClosingText, 0)

C11_Witness ==
    /\ pc = "returned"
    /\ generated_text_content = Str(PlaceholderRetry)
    /\ env["PEXELS_API_KEY"] /\ env["UNSPLASH_ACCESS_KEY"]
    /\ messages_to_send = <<TextMessage(PlaceholderRetry, 0), TextMessage(ClosingText, 0)>>

\* the outcome is one of those the claim names: the request failed, the status was
\* no success, the body's cod is not the number 200, or weather or main is missing
WeatherUnavailable(r) ==
    \/ r.kind \in {"timeout", "connection_error", "http_error"}
    \/ r.kind = "body" /\ ~(r.body.cod.t = "int" /\ r.body.cod.v = 200)
    \/ r.kind = "body" /\ (r.body.weather = "absent" \/ r.body.main = "absent")

\* C12: a call of the weather lookup makes exactly one request and returns a dict;
\* when the request fails, the status is no success, cod is not 200 or weather or
\* main is missing, the dict is the hardcoded fallback.
C12_WeatherFallback ==
    pc = "weather_return" =>
        /\ weather_requests = 1
        /\ weather_result.source \in {"default", "live"}
        /\ WeatherUnavailable(weather_response) => weather_result = DefaultWeather

C12_Witness ==
    /\ pc = "weather_return"
    /\ weather_response.kind = "body"
    /\ weather_response.body.cod = [t |-> "int", v |-> 401]
    /\ weather_response.body.weather = "list"
    /\ weather_response.body.main = "dict"
    /\ weather_result = DefaultWeather

MandatoryCredentials == {"LINE_CHANNEL_ACCESS_TOKEN", "GEMINI_API_KEY", "OPENWEATHERMAP_API_KEY"}

\* C13: with a mandatory credential absent the script goes from its start to exit
\* code 1 and nothing else: no calendar is rendered, no request is made and nothing
\* is broadcast; with all mandatory credentials present the startup check never exits,
\* whatever optional keys are absent.
C13_StartupGating ==
    /\ (\E k \in MandatoryCredentials : ~env[k]) =>
         /\ pc \in {"startup", "exited"}
         /\ pc = "exited" <=> exit_code = 1
         /\ calendar_image_local_path = None /\ calendar_image_url = None
         /\ weather_requests = 0 /\ gemini_requests = 0 /\ search_log = <<>>
         /\ checked_count = 0
         /\ broadcast_calls = 0 /\ all_messages_to_send = <<>>
    /\ (\A k \in MandatoryCredentials : env[k]) => pc # "exited"

C13_Witness ==
    /\ pc = "exited"
    /\ exit_code = 1
    /\ ~env["OPENWEATHERMAP_API_KEY"]
    /\ \A k \in Credentials \ {"OPENWEATHERMAP_API_KEY"} : env[k]

\* the content types of animated formats among the sampled ones
AnimatedContentTypes == { ImagePrefix \o <<"g", "i", "f">> }

\* C14: every candidate submitted to the vision check (the last one iterated, and the
\* one returned) has at most 4 MiB, a content type that begins with "image/", and no
\* animated format.
C14_FormatInvariant ==
    \A c \in {cand, approved} :
        c.verdict # "not_checked" =>
            /\ c.size <= 4 * 1024 * 1024
            /\ StartsWith(c.content_type, <<"i", "m", "a", "g", "e", "/">>)
            /\ c.content_type \notin AnimatedContentTypes

\* the keyword field of the latest response is missing, empty or blank
KeywordMissing ==
    \/ last_parsed.raw_keyword.kind = "absent"
    \/ /\ last_parsed.raw_keyword.kind = "str"
       /\ \A i \in 1..Len(last_parsed.raw_keyword.s) :
            last_parsed.raw_keyword.s[i] \in {" ", "\n", "\t"}

\* C15: a response with a non-empty primary text, a follow-up object and no keyword
\* (or an empty or blank one) ends the retry loop on its attempt, no provider is
\* searched, and the list returned is the primary text and the terminal message.
C15_MissingKeyword ==
    (last_parsed.reached /\ last_parsed.main = "text" /\ QuestTruthy(last_parsed.quest)
        /\ KeywordMissing) =>
        /\ PastRetryLoop
        /\ generated_text_content = Str(Text(attempt))
        /\ gemini_requests = attempt + 1 /\ failures = attempt
        /\ ~Truthy(lucky_food_keyword_for_image)
        /\ search_log = <<>> /\ ~InMedia /\ approved = NoCand
        /\ Returned =>
             /\ Len(messages_to_send) = 2
             /\ messages_to_send[1] = TextMessage(Text(attempt), 0)
             /\ IsTerminalMessage(messages_to_send[2])

C15_Witness ==
    /\ pc = "returned"
    /\ last_parsed.raw_keyword = [kind |-> "str", s |-> <<" ">>]
    /\ env["PEXELS_API_KEY"] /\ env["UNSPLASH_ACCESS_KEY"]
    /\ attempt = 1
    /\ messages_to_send[1] = TextMessage(Text(1), 0)
    /\ messages_to_send[2].quick = 2

\* C16: the broadcast call is made at most once, with the whole list (the calendar
\* message, when there is one, then the list of the content function, in order);
\* when the call fails it is not repeated and the script reaches its normal end with
\* exit code 0.
C16_BroadcastOnce ==
    /\ broadcast_calls <= 1
    /\ broadcast_calls = 1 =>
         /\ pc = "done"
         /\ broadcast_result \in {"ok", "failed"}
         /\ broadcast_arg = all_messages_to_send
         /\ broadcast_arg =
              (IF Truthy(calendar_image_url) THEN <<ImageMessage(calendar_image_url.s)>>
               ELSE <<>>) \o messages_to_send
    /\ broadcast_result = "failed" =>
         (broadcast_calls = 1 /\ pc = "done" /\ exit_code = 0)

C16_Witness ==
    /\ pc = "done"
    /\ broadcast_result = "failed"
    /\ broadcast_calls = 1
    /\ Len(broadcast_arg) = 4

InLoop == pc \in {"pexels_loop", "unsplash_loop"}

\* a step of the candidate loop that skips its candidate before the vision check
SkipStep ==
    /\ InLoop /\ pc' = pc /\ idx' = idx + 1
    /\ \/ cand'.url = None
       \/ cand'.download \in {"network_error", "http_error"}
       \/ ~StartsWith(cand'.content_type, ImagePrefix)
       \/ cand'.size > 4 * 1024 * 1024

\* C17: in one call of a provider function the number of vision checks never exceeds
\* max_candidates_to_check; a candidate skipped before the check (no URL, failed
\* download, no image content type, oversize) adds nothing to the count, so more
\* results can be iterated than the cap.
C17_CandidateCap ==
    /\ [](/\ vision_calls <= candidate_cap
          /\ InLoop => (checked_count = vision_calls /\ vision_calls <= idx
                        /\ idx <= n_results))
    /\ [][SkipStep => (vision_calls' = vision_calls /\ checked_count' = checked_count)]_vars

C17_Witness ==
    /\ pc = "unsplash_loop"
    /\ vision_calls = candidate_cap
    /\ idx > candidate_cap
    /\ cand.verdict = "not_relevant"

\* the number of days before the first day of each month in a common year
DaysBeforeMonth == <<0, 31, 59, 90, 120, 151, 181, 212, 243, 273, 304, 334>>

\* the day of the year of (m, d)
Ordinal(m, d, leap) == DaysBeforeMonth[m] + d + (IF leap /\ m > 2 THEN 1 ELSE 0)

YearLength(leap) == IF leap THEN 366 ELSE 365

\* how many days the latest occurrence of table date t lies before the date
DaysBefore(date, t) ==
    (Ordinal(date.month, date.day, date.leap) - Ordinal(t[1], t[2], date.leap)
        + YearLength(date.leap)) % YearLength(date.leap)

\* C18: the lookup returns the label of the latest table date that lies 0 to 14 days
\* before the date, across month and year boundaries, and the generic description
\* exactly when no table date lies in these 15 days.
C18_SolarTerm ==
    pc = "solar_return" =>
        LET window == { t \in SOLAR_TERMS_DATA : DaysBefore(solar_date, t) <= 14 }
        IN  /\ (window = {}) <=> (solar_result = <<0, 0>>)
            /\ window # {} =>
                 /\ solar_result \in window
                 /\ \A t \in window :
                      DaysBefore(solar_date, solar_result) <= DaysBefore(solar_date, t)

C18_Witness ==
    /\ pc = "solar_return"
    /\ solar_date = [month |-> 1, day |-> 4, leap |-> TRUE]
    /\ solar_result = <<12, 21>>

\* text, keyword and follow-up object are those the latest response was parsed to,
\* and that response is the only one that did not end in the except branch
FromAcceptedAttempt ==
    /\ gemini_requests = attempt + 1 /\ failures = attempt
    /\ last_parsed.assigned /\ last_parsed.main = "text"
    /\ generated_text_content = Str(Text(attempt))
    /\ lucky_food_keyword_for_image = last_parsed.keyword
    /\ daily_quest_data = last_parsed.quest

\* the degraded content of lines 645-647 and 655-657
DegradedContent ==
    /\ failures = gemini_requests
    /\ generated_text_content \in {Str(PlaceholderRetry), Str(PlaceholderNone)}
    /\ lucky_food_keyword_for_image = None
    /\ daily_quest_data = QuestNone

\* C19: after the retry loop the primary text, the keyword and the follow-up object
\* all come from the one accepted attempt, or are the placeholder with null keyword
\* and null follow-up; an image search runs only on the accepted keyword, and the
\* returned messages are built from these values.
C19_NoStaleContent ==
    /\ PastRetryLoop => (FromAcceptedAttempt \/ DegradedContent)
    /\ (InMedia \/ search_log # <<>> \/ approved # NoCand) =>
         (FromAcceptedAttempt /\ Truthy(last_parsed.keyword))
    /\ Returned =>
         /\ messages_to_send[1] = TextMessage(generated_text_content.s, 0)
         /\ messages_to_send[Len(messages_to_send)] = TerminalMessage(daily_quest_data)

C19_Witness ==
    /\ pc = "returned"
    /\ attempt = 2 /\ failures = 2 /\ gemini_requests = 3
    /\ search_log = <<"Pexels">>
    /\ messages_to_send[1] = TextMessage(Text(2), 0)
    /\ Len(messages_to_send) = 3

\* the positions of the image messages in the list being assembled
ImagePositions ==
    { i \in 1..Len(messages_to_send) : messages_to_send[i].type = "image" }

\* C20: the list of the content function holds at most one image message; its URL is
\* that of a candidate of this run that was downloaded, had an image content type and
\* at most 4 MiB, and was called relevant by the vision check in a search for the
\* accepted keyword; the URL of a candidate the check did not call relevant is never
\* in the list.
C20_OnlyApprovedImages ==
    /\ Cardinality(ImagePositions) <= 1
    /\ \A i \in ImagePositions :
         /\ approved.url = Str(messages_to_send[i].body)
         /\ approved.download = "ok"
         /\ StartsWith(approved.content_type, ImagePrefix)
         /\ approved.size <= 4 * 1024 * 1024
         /\ approved.verdict = "relevant"
         /\ Member(approved.url.s[1], search_log)
         /\ Truthy(lucky_food_keyword_for_image)
         /\ lucky_food_keyword_for_image = last_parsed.keyword
    /\ approved.verdict \in {"relevant", "not_checked"}
    /\ cand.verdict # "relevant"
    /\ \A i \in ImagePositions : Str(messages_to_send[i].body) # cand.url

C20_Witness ==
    /\ pc = "returned"
    /\ messages_to_send[2] = ImageMessage(<<"Pexels", 2>>)
    /\ approved.url = Str(<<"Pexels", 2>>)
    /\ vision_calls = 2

\* C21: the list passed to the broadcast call holds 2 to 4 messages; when the
\* calendar image was rendered and uploaded it is the first message and the primary
\* text the second; otherwise the primary text is the first message.
C21_BroadcastListBounds ==
    broadcast_calls >= 1 =>
        /\ Len(broadcast_arg) \in 2..4
        /\ Len(broadcast_arg) <= 5
        /\ (Truthy(calendar_image_local_path) /\ Truthy(calendar_image_url)) =>
             /\ broadcast_arg[1] = [type |-> "image", body |-> calendar_image_url.s,
                                    quick |-> 0]
             /\ broadcast_arg[2] = TextMessage(generated_text_content.s, 0)
        /\ ~(Truthy(calendar_image_local_path) /\ Truthy(calendar_image_url)) =>
             broadcast_arg[1] = TextMessage(generated_text_content.s, 0)

C21_Witness ==
    /\ pc = "done"
    /\ broadcast_result = "ok"
    /\ Len(broadcast_arg) = 4
    /\ broadcast_arg[1].type = "image"
    /\ broadcast_arg[2].type = "text"
    /\ broadcast_arg[3] = ImageMessage(<<"Unsplash", 1>>)

====
